---- MODULE Spec2Model ----
(***************************************************************************)
(* Ward resolution and notification dispatch of notifications.py:          *)
(* WardNotificationSystem.process_new_issue and the functions it calls,    *)
(* run by two workers against one Firestore store ('issues' and 'ward'     *)
(* collections) and one SMTP transport.                                    *)
(***************************************************************************)
EXTENDS Integers, Sequences, FiniteSets, TLC

\* Calls of process_new_issue in one behaviour, over all workers.
MaxCalls == 2

\* The workers that call process_new_issue (one per trigger event).
Procs == {"p1", "p2"}

(***************************************************************************)
(* Documents.  A document is a record; a field the document does not have  *)
(* is a field outside its DOMAIN, and reading it is Python's KeyError.     *)
(***************************************************************************)

\* dict.update / DocumentReference.update: the named fields are replaced or
\* added, every other field is kept.
Update(doc, fields) ==
    [k \in DOMAIN doc \cup DOMAIN fields |->
        IF k \in DOMAIN fields THEN fields[k] ELSE doc[k]]

\* Python's None, and the worker's locals before they are assigned.
None == [none |-> TRUE]

V(a, b) == [lat |-> a, lng |-> b]

\* The two sample wards of setup_ward_collection, on an integer grid.
CentralWard ==
    [id |-> "ward001",
     data |-> [ward_id |-> "ward001", name |-> "Central Ward",
               officer_email |-> "central@example.org",
               boundaries |-> <<V(0, 0), V(4, 0), V(4, 4), V(0, 4)>>]]

NorthWard ==
    [id |-> "ward002",
     data |-> [ward_id |-> "ward002", name |-> "North Ward",
               officer_email |-> "north@example.org",
               boundaries |-> <<V(6, 0), V(10, 0), V(10, 4), V(6, 4)>>]]

\* A ward whose polygon overlaps Central Ward (a data-quality condition).
EastWard ==
    [id |-> "ward003",
     data |-> [ward_id |-> "ward003", name |-> "East Ward",
               officer_email |-> "east@example.org",
               boundaries |-> <<V(2, 2), V(6, 2), V(2, 6)>>]]

\* Ward records with a boundary of fewer than 3 vertices; the document IDs
\* put one before and one after the sample wards in the stream's order.
BadWardFirst ==
    [id |-> "ward000",
     data |-> [ward_id |-> "ward000", name |-> "Draft Ward",
               officer_email |-> "draft@example.org",
               boundaries |-> <<V(0, 0), V(4, 4)>>]]

BadWardLast ==
    [id |-> "ward009",
     data |-> [ward_id |-> "ward009", name |-> "Draft Ward",
               officer_email |-> "draft@example.org",
               boundaries |-> <<V(0, 0), V(4, 4)>>]]

\* A ward record with an empty boundary list, and one with no boundaries
\* field at all.
EmptyWard ==
    [id |-> "ward000",
     data |-> [ward_id |-> "ward000", name |-> "Empty Ward",
               officer_email |-> "empty@example.org",
               boundaries |-> <<>>]]

UnmappedWard ==
    [id |-> "ward000",
     data |-> [ward_id |-> "ward000", name |-> "Unmapped Ward",
               officer_email |-> "unmapped@example.org"]]

\* The contents of the 'ward' collection, in the order stream() yields the
\* documents (ascending document ID).
WardSets ==
    { <<>>,
      <<CentralWard, NorthWard>>,
      <<CentralWard, EastWard>>,
      <<BadWardFirst, CentralWard>>,
      <<CentralWard, BadWardLast>>,
      <<EmptyWard, CentralWard>>,
      <<UnmappedWard, NorthWard>> }

\* An issue as the reporting path creates it (test_with_sample_issue): no
\* ward or notification field yet.
Issue(a, b) ==
    [latitude |-> a, longitude |-> b, category |-> "Road Damage",
     description |-> "Large pothole", created_at |-> 0]

\* The same, without the category the notification's subject needs.
IssueNoCategory(a, b) ==
    [latitude |-> a, longitude |-> b,
     description |-> "Large pothole", created_at |-> 0]

IssueDocs ==
    { Issue(1, 1),            \* inside Central Ward only
      Issue(3, 3) ,           \* inside Central Ward and East Ward
      Issue(8, 2),            \* inside North Ward
      Issue(0, 2),            \* on Central Ward's edge
      Issue(20, 20),          \* outside every ward
      IssueNoCategory(1, 1) }

\* The documents the second issue is drawn from: one inside two wards, one
\* outside every ward.
OtherIssueDocs == {Issue(3, 3), Issue(20, 20)}

\* Document IDs of the 'issues' collection, and an ID no document has.
IssueIds == {"i1", "i2"}
MissingId == "i0"

(***************************************************************************)
(* GeoContainment: shapely's Polygon(coords).contains(Point(lat, long)).   *)
(***************************************************************************)

Cross(a, b, p) ==
    (b.lat - a.lat) * (p.lng - a.lng) - (b.lng - a.lng) * (p.lat - a.lat)

Min(x, y) == IF x < y THEN x ELSE y
Max(x, y) == IF x > y THEN x ELSE y

\* p lies on the closed segment a-b.
OnSegment(a, b, p) ==
    /\ Cross(a, b, p) = 0
    /\ Min(a.lat, b.lat) <= p.lat /\ p.lat <= Max(a.lat, b.lat)
    /\ Min(a.lng, b.lng) <= p.lng /\ p.lng <= Max(a.lng, b.lng)

\* The ring's edge i: the last vertex is joined to the first.
EdgeFrom(poly, i) == poly[i]
EdgeTo(poly, i) == poly[(i % Len(poly)) + 1]

\* The ray from p towards larger lat crosses edge a-b.
RayCrosses(a, b, p) ==
    /\ (a.lng > p.lng) # (b.lng > p.lng)
    /\ IF b.lng > a.lng
       THEN (p.lat - a.lat) * (b.lng - a.lng) < (p.lng - a.lng) * (b.lat - a.lat)
       ELSE (p.lat - a.lat) * (b.lng - a.lng) > (p.lng - a.lng) * (b.lat - a.lat)

\* Polygon.contains: the point is in the polygon's interior; a point on the
\* boundary is not contained.
Contains(poly, p) ==
    /\ \A i \in 1..Len(poly) : ~OnSegment(EdgeFrom(poly, i), EdgeTo(poly, i), p)
    /\ Cardinality({i \in 1..Len(poly) :
                      RayCrosses(EdgeFrom(poly, i), EdgeTo(poly, i), p)}) % 2 = 1

\* A bug: the point is built as Point(long, lat) against (lat, lng) vertices.
point_in_polygon_swapped(lat, long, boundaries) ==
    IF \E i \in 1..Len(boundaries) :
          ~({"lat", "lng"} \subseteq DOMAIN boundaries[i])
    THEN [raised |-> TRUE, value |-> FALSE]
    ELSE IF Len(boundaries) \in {1, 2}
    THEN [raised |-> TRUE, value |-> FALSE]
    ELSE IF Len(boundaries) = 0
    THEN [raised |-> FALSE, value |-> FALSE]
    ELSE [raised |-> FALSE, value |-> Contains(boundaries, V(long, lat))]

\* point_in_polygon: Polygon() raises ValueError for a ring of one or two
\* coordinates, and builds the empty polygon, which contains nothing, for
\* none.  A vertex without lat or lng is a KeyError.
point_in_polygon(lat, long, boundaries) ==
    IF \E i \in 1..Len(boundaries) :
          ~({"lat", "lng"} \subseteq DOMAIN boundaries[i])
    THEN [raised |-> TRUE, value |-> FALSE]
    ELSE IF Len(boundaries) \in {1, 2}
    THEN [raised |-> TRUE, value |-> FALSE]
    ELSE IF Len(boundaries) = 0
    THEN [raised |-> FALSE, value |-> FALSE]
    ELSE [raised |-> FALSE, value |-> Contains(boundaries, V(lat, long))]

(***************************************************************************)
(* WardIndex: find_ward_for_location over the streamed ward documents.     *)
(***************************************************************************)

\* ward_doc.to_dict() with ward['id'] = ward_doc.id
ToWard(ward_doc) == Update(ward_doc.data, [id |-> ward_doc.id])

RECURSIVE FindFrom(_, _, _, _)
\* The for loop from document i on: the first ward with a boundaries field
\* whose polygon contains the point; an exception of point_in_polygon, or of
\* the print that reads ward['name'], ends the loop.
FindFrom(lat, long, docs, i) ==
    IF i > Len(docs)
    THEN [raised |-> FALSE, ward |-> None]
    ELSE LET w == ToWard(docs[i])
         IN  IF "boundaries" \notin DOMAIN w
             THEN FindFrom(lat, long, docs, i + 1)
             ELSE LET c == point_in_polygon(lat, long, w.boundaries)
                  IN  IF c.raised
                      THEN [raised |-> TRUE, ward |-> None]
                      ELSE IF c.value
                      THEN IF "name" \in DOMAIN w
                           THEN [raised |-> FALSE, ward |-> w]
                           ELSE [raised |-> TRUE, ward |-> None]
                      ELSE FindFrom(lat, long, docs, i + 1)

\* A bug: the wards are walked in descending document order.
find_ward_for_location_descending(lat, long, docs) ==
    IF Len(docs) = 0
    THEN [raised |-> FALSE, ward |-> None]
    ELSE FindFrom(lat, long,
                  [i \in 1..Len(docs) |-> docs[Len(docs) + 1 - i]], 1)

find_ward_for_location(lat, long, docs) ==
    IF Len(docs) = 0
    THEN [raised |-> FALSE, ward |-> None]
    ELSE FindFrom(lat, long, docs, 1)

(***************************************************************************)
(* NotificationDispatcher: send_email_notification.                        *)
(***************************************************************************)

\* What the SMTP session does: it delivers, or one of its four calls
\* (SMTP(), starttls, login, send_message) raises.
TransportOutcomes ==
    {"smtp_ok", "smtp_connect_fault", "smtp_tls_fault", "smtp_login_fault",
     "smtp_send_fault"}

\* The fields the subject and the body read.
PayloadBuilt(issue_data, ward_data) ==
    /\ {"name", "ward_id"} \subseteq DOMAIN ward_data
    /\ {"category", "description", "latitude", "longitude", "created_at", "id"}
          \subseteq DOMAIN issue_data

\* A bug: the try covers the message only, so a fault of the SMTP session
\* escapes the dispatcher.
send_email_notification_narrow_try(officer_email, issue_data, ward_data, outcome) ==
    IF ~PayloadBuilt(issue_data, ward_data)
    THEN [raised |-> FALSE, ret |-> FALSE, events |-> <<"dispatch">>]
    ELSE [raised |-> (outcome # "smtp_ok"), ret |-> (outcome = "smtp_ok"),
          events |-> <<"dispatch", outcome>>]

\* A bug: a failed session is tried once more.
send_email_notification_retry(officer_email, issue_data, ward_data, outcome) ==
    IF ~PayloadBuilt(issue_data, ward_data)
    THEN [raised |-> FALSE, ret |-> FALSE, events |-> <<"dispatch">>]
    ELSE [raised |-> FALSE, ret |-> (outcome = "smtp_ok"),
          events |-> IF outcome = "smtp_ok"
                     THEN <<"dispatch", outcome>>
                     ELSE <<"dispatch", outcome, outcome>>]

\* The whole body is one try: an exception while the message is built
\* (before any SMTP session) or in the session is caught and answered with
\* False.  events: what the dispatcher did, in order.
send_email_notification(officer_email, issue_data, ward_data, outcome) ==
    IF ~PayloadBuilt(issue_data, ward_data)
    THEN [raised |-> FALSE, ret |-> FALSE, events |-> <<"dispatch">>]
    ELSE [raised |-> FALSE, ret |-> (outcome = "smtp_ok"),
          events |-> <<"dispatch", outcome>>]

(***************************************************************************)
(* State.                                                                  *)
(***************************************************************************)
VARIABLES
    wards,        \* the 'ward' collection, in stream order
    issues,       \* the 'issues' collection: document ID -> document
    clock,        \* the store's clock (firestore.SERVER_TIMESTAMP)
    pc,           \* each worker's position in process_new_issue
    issue_id,     \* process_new_issue's argument
    issue_data,   \* its local issue_data
    ward,         \* its local ward
    email_sent,   \* its local email_sent
    result,       \* what the call returned (read when pc = "done")
    calls,        \* calls of process_new_issue made so far
    log,          \* what the current call of each worker has done, in order
    sends         \* SMTP sessions opened so far, per issue ID

vars == <<wards, issues, clock, pc, issue_id, issue_data, ward, email_sent,
          result, calls, log, sends>>

Init ==
    /\ wards \in WardSets
    /\ issues \in {f \in [IssueIds -> IssueDocs] : f["i2"] \in OtherIssueDocs}
    /\ clock = 1
    /\ pc = [p \in Procs |-> "idle"]
    /\ issue_id = [p \in Procs |-> MissingId]
    /\ issue_data = [p \in Procs |-> None]
    /\ ward = [p \in Procs |-> None]
    /\ email_sent = [p \in Procs |-> FALSE]
    /\ result = [p \in Procs |-> FALSE]
    /\ calls = 0
    /\ log = [p \in Procs |-> <<>>]
    /\ sends = [i \in IssueIds \cup {MissingId} |-> 0]

\* return v, from the body or from the except clause.
Return(p, v) ==
    /\ pc' = [pc EXCEPT ![p] = "done"]
    /\ result' = [result EXCEPT ![p] = v]

Logged(p, events) == log' = [log EXCEPT ![p] = log[p] \o events]

\* A worker calls process_new_issue(id).
Invoke(p, id) ==
    /\ pc[p] \in {"idle", "done"}
    /\ calls < MaxCalls
    /\ calls' = calls + 1
    /\ pc' = [pc EXCEPT ![p] = "get"]
    /\ issue_id' = [issue_id EXCEPT ![p] = id]
    /\ issue_data' = [issue_data EXCEPT ![p] = None]
    /\ ward' = [ward EXCEPT ![p] = None]
    /\ email_sent' = [email_sent EXCEPT ![p] = FALSE]
    /\ result' = [result EXCEPT ![p] = FALSE]
    /\ log' = [log EXCEPT ![p] = <<>>]
    /\ UNCHANGED <<wards, issues, clock, sends>>

\* A bug: a missing issue is recorded as one with no ward (set with merge)
\* before the call gives up.
GetIssueRecordsMissing(p, storeOk) ==
    /\ pc[p] = "get"
    /\ IF ~storeOk
       THEN /\ Return(p, FALSE)
            /\ Logged(p, <<"get_fault">>)
            /\ UNCHANGED <<issue_data, issues>>
       ELSE IF issue_id[p] \notin DOMAIN issues
       THEN /\ Return(p, FALSE)
            /\ Logged(p, <<"get", "not_found">>)
            /\ issues' = [i \in DOMAIN issues \cup {issue_id[p]} |->
                            IF i = issue_id[p]
                            THEN [ward_assigned |-> FALSE,
                                  notification_sent |-> FALSE]
                            ELSE issues[i]]
            /\ UNCHANGED issue_data
       ELSE LET d == Update(issues[issue_id[p]], [id |-> issue_id[p]])
            IN  /\ issue_data' = [issue_data EXCEPT ![p] = d]
                /\ UNCHANGED issues
                /\ IF {"latitude", "longitude"} \subseteq DOMAIN d
                   THEN /\ pc' = [pc EXCEPT ![p] = "find"]
                        /\ Logged(p, <<"get">>)
                        /\ UNCHANGED result
                   ELSE /\ Return(p, FALSE)
                        /\ Logged(p, <<"get", "key_error">>)
    /\ UNCHANGED <<wards, clock, issue_id, ward, email_sent, calls, sends>>

\* issue_ref.get(), the exists test, to_dict() and the print that reads the
\* coordinates.  storeOk: the store answered (it raised otherwise).
GetIssue(p, storeOk) ==
    /\ pc[p] = "get"
    /\ IF ~storeOk
       THEN /\ Return(p, FALSE)
            /\ Logged(p, <<"get_fault">>)
            /\ UNCHANGED issue_data
       ELSE IF issue_id[p] \notin DOMAIN issues
       THEN /\ Return(p, FALSE)
            /\ Logged(p, <<"get", "not_found">>)
            /\ UNCHANGED issue_data
       ELSE LET d == Update(issues[issue_id[p]], [id |-> issue_id[p]])
            IN  /\ issue_data' = [issue_data EXCEPT ![p] = d]
                /\ IF {"latitude", "longitude"} \subseteq DOMAIN d
                   THEN /\ pc' = [pc EXCEPT ![p] = "find"]
                        /\ Logged(p, <<"get">>)
                        /\ UNCHANGED result
                   ELSE /\ Return(p, FALSE)
                        /\ Logged(p, <<"get", "key_error">>)
    /\ UNCHANGED <<wards, issues, clock, issue_id, ward, email_sent, calls, sends>>

\* A bug: the lookup writes ward['id'] back into each ward document.
FindWardStoresId(p, storeOk) ==
    /\ pc[p] = "find"
    /\ IF ~storeOk
       THEN /\ Return(p, FALSE)
            /\ Logged(p, <<"wards_fault">>)
            /\ UNCHANGED <<ward, wards>>
       ELSE LET r == find_ward_for_location(issue_data[p].latitude,
                                            issue_data[p].longitude, wards)
            IN  /\ wards' = [i \in 1..Len(wards) |->
                               [id |-> wards[i].id, data |-> ToWard(wards[i])]]
                /\ IF r.raised
                   THEN /\ Return(p, FALSE)
                        /\ Logged(p, <<"wards", "lookup_raised">>)
                        /\ UNCHANGED ward
                   ELSE /\ ward' = [ward EXCEPT ![p] = r.ward]
                        /\ pc' = [pc EXCEPT ![p] =
                                    IF r.ward = None THEN "no_ward" ELSE "assign"]
                        /\ Logged(p, <<"wards">>)
                        /\ UNCHANGED result
    /\ UNCHANGED <<issues, clock, issue_id, issue_data, email_sent,
                   calls, sends>>

\* find_ward_for_location(float(latitude), float(longitude)): the stream of
\* the ward collection and the loop over it.
FindWard(p, storeOk) ==
    /\ pc[p] = "find"
    /\ IF ~storeOk
       THEN /\ Return(p, FALSE)
            /\ Logged(p, <<"wards_fault">>)
            /\ UNCHANGED ward
       ELSE LET r == find_ward_for_location(issue_data[p].latitude,
                                            issue_data[p].longitude, wards)
            IN  IF r.raised
                THEN /\ Return(p, FALSE)
                     /\ Logged(p, <<"wards", "lookup_raised">>)
                     /\ UNCHANGED ward
                ELSE /\ ward' = [ward EXCEPT ![p] = r.ward]
                     /\ pc' = [pc EXCEPT ![p] =
                                 IF r.ward = None THEN "no_ward" ELSE "assign"]
                     /\ Logged(p, <<"wards">>)
                     /\ UNCHANGED result
    /\ UNCHANGED <<wards, issues, clock, issue_id, issue_data, email_sent,
                   calls, sends>>

\* A bug: the no-ward branch marks the issue as notified.
NoWardFieldsNotified ==
    [ward_assigned |-> FALSE, notification_sent |-> TRUE]

\* The fields of the update with no assigned ward.
NoWardFields ==
    [ward_assigned |-> FALSE, notification_sent |-> FALSE]

\* if not ward: the update with no assigned ward, and return False.
UpdateNoWard(p, storeOk) ==
    /\ pc[p] = "no_ward"
    /\ Return(p, FALSE)
    /\ IF storeOk
       THEN /\ issues' = [issues EXCEPT ![issue_id[p]] =
                  Update(@, NoWardFields)]
            /\ Logged(p, <<"update_no_ward">>)
       ELSE /\ Logged(p, <<"update_fault">>)
            /\ UNCHANGED issues
    /\ UNCHANGED <<wards, clock, issue_id, issue_data, ward, email_sent,
                   calls, sends>>

\* A bug: the flag is written in an update of its own, ahead of the ward's
\* ID and name.
WardInfoFlagOnly(w) ==
    [ward_assigned |-> TRUE]

\* A bug: the update leaves the flag out.
WardInfoNoFlag(w) ==
    [ward_id |-> w.ward_id, ward_name |-> w.name]

\* The fields of the update with the ward info.
WardInfo(w) ==
    [ward_id |-> w.ward_id, ward_name |-> w.name, ward_assigned |-> TRUE]

\* issue_ref.update({ward_id, ward_name, ward_assigned: True}): one update
\* of one document.  A ward without ward_id or name is a KeyError before it.
UpdateWardInfo(p, storeOk) ==
    /\ pc[p] = "assign"
    /\ IF ~({"ward_id", "name"} \subseteq DOMAIN ward[p])
       THEN /\ Return(p, FALSE)
            /\ Logged(p, <<"key_error">>)
            /\ UNCHANGED issues
       ELSE IF ~storeOk
       THEN /\ Return(p, FALSE)
            /\ Logged(p, <<"update_fault">>)
            /\ UNCHANGED issues
       ELSE /\ issues' = [issues EXCEPT ![issue_id[p]] =
                  Update(@, WardInfo(ward[p]))]
            /\ pc' = [pc EXCEPT ![p] = "notify"]
            /\ Logged(p, <<"update_ward_info">>)
            /\ UNCHANGED result
    /\ UNCHANGED <<wards, clock, issue_id, issue_data, ward, email_sent,
                   calls, sends>>

\* SMTP sessions among the events.
Sessions(events) ==
    Cardinality({i \in 1..Len(events) : events[i] \in TransportOutcomes})

\* email_sent = self.send_email_notification(ward['officer_email'],
\* issue_data, ward).  outcome: what the SMTP session does if it is opened.
Notify(p, outcome) ==
    /\ pc[p] = "notify"
    /\ IF "officer_email" \notin DOMAIN ward[p]
       THEN /\ Return(p, FALSE)
            /\ Logged(p, <<"key_error">>)
            /\ UNCHANGED <<email_sent, sends>>
       ELSE LET r == send_email_notification(ward[p].officer_email,
                                             issue_data[p], ward[p], outcome)
            IN  /\ Logged(p, r.events)
                /\ sends' = [sends EXCEPT ![issue_id[p]] = @ + Sessions(r.events)]
                /\ IF r.raised
                   THEN /\ Return(p, FALSE)
                        /\ UNCHANGED email_sent
                   ELSE /\ email_sent' = [email_sent EXCEPT ![p] = r.ret]
                        /\ pc' = [pc EXCEPT ![p] = "status"]
                        /\ UNCHANGED result
    /\ UNCHANGED <<wards, issues, clock, issue_id, issue_data, ward, calls>>

\* A bug: a failed notification takes the assignment back.
NotificationStatusUnassigns(sent, now) ==
    [notification_sent |-> sent, notification_email_sent |-> sent,
     notification_time |-> now, ward_assigned |-> sent]

\* A bug: the attempt is recorded, not its outcome.
NotificationStatusAlwaysSent(sent, now) ==
    [notification_sent |-> TRUE, notification_email_sent |-> TRUE,
     notification_time |-> now]

\* The fields of the update with the notification status.
NotificationStatus(sent, now) ==
    [notification_sent |-> sent, notification_email_sent |-> sent,
     notification_time |-> now]

\* A bug: the last update is made after the try, so its fault leaves
\* process_new_issue as an exception.
UpdateStatusUncaught(p, storeOk) ==
    /\ pc[p] = "status"
    /\ IF storeOk
       THEN /\ issues' = [issues EXCEPT ![issue_id[p]] =
                  Update(@, NotificationStatus(email_sent[p], clock))]
            /\ clock' = clock + 1
            /\ Return(p, TRUE)
            /\ Logged(p, <<"update_status">>)
       ELSE /\ pc' = [pc EXCEPT ![p] = "raised"]
            /\ Logged(p, <<"update_fault">>)
            /\ UNCHANGED <<issues, clock, result>>
    /\ UNCHANGED <<wards, issue_id, issue_data, ward, email_sent, calls, sends>>

\* issue_ref.update({notification_sent, notification_email_sent,
\* notification_time}) and return True.
UpdateStatus(p, storeOk) ==
    /\ pc[p] = "status"
    /\ IF storeOk
       THEN /\ issues' = [issues EXCEPT ![issue_id[p]] =
                  Update(@, NotificationStatus(email_sent[p], clock))]
            /\ clock' = clock + 1
            /\ Return(p, TRUE)
            /\ Logged(p, <<"update_status">>)
       ELSE /\ Return(p, FALSE)
            /\ Logged(p, <<"update_fault">>)
            /\ UNCHANGED <<issues, clock>>
    /\ UNCHANGED <<wards, issue_id, issue_data, ward, email_sent, calls, sends>>

\* The store answers every call.
Next ==
    \E p \in Procs :
        \/ \E id \in IssueIds \cup {MissingId} : Invoke(p, id)
        \/ GetIssue(p, TRUE)
        \/ FindWard(p, TRUE)
        \/ UpdateNoWard(p, TRUE)
        \/ UpdateWardInfo(p, TRUE)
        \/ \E outcome \in TransportOutcomes : Notify(p, outcome)
        \/ UpdateStatus(p, TRUE)

Spec == Init /\ [][Next]_vars

(***************************************************************************)
(* The ward lookup on its own: the issue's point is drawn from a grid      *)
(* around the wards, the collection from sets of well-formed wards, and    *)
(* the workers run process_new_issue up to the lookup's answer.            *)
(***************************************************************************)

\* The grid is (-1..MaxLat) x (-1..MaxLng).
MaxLat == 11
MaxLng == 7

\* Collections of wards with boundaries of 3 vertices or more, in stream
\* order; the last two hold overlapping polygons.
LookupWardSets ==
    { <<>>,
      <<CentralWard>>,
      <<CentralWard, NorthWard>>,
      <<NorthWard, EastWard>>,
      <<CentralWard, EastWard>>,
      <<CentralWard, NorthWard, EastWard>> }

InitLookup ==
    /\ wards \in LookupWardSets
    /\ \E a \in -1..MaxLat : \E b \in -1..MaxLng :
          issues = [i \in IssueIds |-> Issue(a, b)]
    /\ clock = 1
    /\ pc = [p \in Procs |-> "idle"]
    /\ issue_id = [p \in Procs |-> MissingId]
    /\ issue_data = [p \in Procs |-> None]
    /\ ward = [p \in Procs |-> None]
    /\ email_sent = [p \in Procs |-> FALSE]
    /\ result = [p \in Procs |-> FALSE]
    /\ calls = 0
    /\ log = [p \in Procs |-> <<>>]
    /\ sends = [i \in IssueIds \cup {MissingId} |-> 0]

NextLookup ==
    \E p \in Procs :
        \/ \E id \in IssueIds : Invoke(p, id)
        \/ GetIssue(p, TRUE)
        \/ FindWard(p, TRUE)

SpecLookup == InitLookup /\ [][NextLookup]_vars

(***************************************************************************)
(* The store may fail: every get, stream and update either answers or      *)
(* raises, and an issue document may lack the fields the code reads.       *)
(***************************************************************************)

\* An issue document without a latitude.
IssueNoLatitude ==
    [longitude |-> 1, category |-> "Road Damage",
     description |-> "Large pothole", created_at |-> 0]

FaultWardSets ==
    { <<>>,
      <<CentralWard, NorthWard>>,
      <<BadWardFirst, CentralWard>> }

FaultIssueDocs ==
    {Issue(1, 1), Issue(20, 20), IssueNoCategory(1, 1), IssueNoLatitude}

InitFault ==
    /\ wards \in FaultWardSets
    /\ issues \in {f \in [IssueIds -> FaultIssueDocs] : f["i2"] = Issue(1, 1)}
    /\ clock = 1
    /\ pc = [p \in Procs |-> "idle"]
    /\ issue_id = [p \in Procs |-> MissingId]
    /\ issue_data = [p \in Procs |-> None]
    /\ ward = [p \in Procs |-> None]
    /\ email_sent = [p \in Procs |-> FALSE]
    /\ result = [p \in Procs |-> FALSE]
    /\ calls = 0
    /\ log = [p \in Procs |-> <<>>]
    /\ sends = [i \in IssueIds \cup {MissingId} |-> 0]

NextFault ==
    \E p \in Procs :
        \/ \E id \in IssueIds \cup {MissingId} : Invoke(p, id)
        \/ \E storeOk \in BOOLEAN : GetIssue(p, storeOk)
        \/ \E storeOk \in BOOLEAN : FindWard(p, storeOk)
        \/ \E storeOk \in BOOLEAN : UpdateNoWard(p, storeOk)
        \/ \E storeOk \in BOOLEAN : UpdateWardInfo(p, storeOk)
        \/ \E outcome \in TransportOutcomes : Notify(p, outcome)
        \/ \E storeOk \in BOOLEAN : UpdateStatus(p, storeOk)

SpecFault == InitFault /\ [][NextFault]_vars

(***************************************************************************)
(* The ward collection changes between calls: the seed or admin path       *)
(* (setup_ward_collection's document(...).set(ward)) rewrites it while no  *)
(* call of process_new_issue is running.                                   *)
(***************************************************************************)

ChangeWardSets ==
    { <<>>,
      <<NorthWard>>,
      <<CentralWard, NorthWard>>,
      <<CentralWard, EastWard>> }

InitWardChange ==
    /\ wards \in ChangeWardSets
    /\ issues \in {f \in [IssueIds -> IssueDocs] :
                      f["i1"] \in {Issue(1, 1), Issue(3, 3), Issue(8, 2)}
                      /\ f["i2"] = Issue(20, 20)}
    /\ clock = 1
    /\ pc = [p \in Procs |-> "idle"]
    /\ issue_id = [p \in Procs |-> MissingId]
    /\ issue_data = [p \in Procs |-> None]
    /\ ward = [p \in Procs |-> None]
    /\ email_sent = [p \in Procs |-> FALSE]
    /\ result = [p \in Procs |-> FALSE]
    /\ calls = 0
    /\ log = [p \in Procs |-> <<>>]
    /\ sends = [i \in IssueIds \cup {MissingId} |-> 0]

\* The ward collection becomes ws while every worker is between calls.
ChangeWards(ws) ==
    /\ \A p \in Procs : pc[p] \in {"idle", "done"}
    /\ ws # wards
    /\ wards' = ws
    /\ UNCHANGED <<issues, clock, pc, issue_id, issue_data, ward, email_sent,
                   result, calls, log, sends>>

NextWardChange ==
    \/ \E ws \in ChangeWardSets : ChangeWards(ws)
    \/ \E p \in Procs :
          \/ \E id \in IssueIds \cup {MissingId} : Invoke(p, id)
          \/ GetIssue(p, TRUE)
          \/ FindWard(p, TRUE)
          \/ UpdateNoWard(p, TRUE)
          \/ UpdateWardInfo(p, TRUE)
          \/ \E outcome \in TransportOutcomes : Notify(p, outcome)
          \/ UpdateStatus(p, TRUE)

SpecWardChange == InitWardChange /\ [][NextWardChange]_vars

(***************************************************************************)
(* Properties.                                                             *)
(***************************************************************************)

\* The current call of worker p did e.
Did(p, e) == \E i \in 1..Len(log[p]) : log[p][i] = e

\* Position of the first e among what worker p did (0: none).
FirstAt(p, e) ==
    IF Did(p, e)
    THEN CHOOSE i \in 1..Len(log[p]) :
            /\ log[p][i] = e
            /\ \A j \in 1..(i - 1) : log[p][j] # e
    ELSE 0

\* Worker p has fetched its issue: issue_data is the document it read.
Fetched(p) == issue_data[p] # None

Has(d, k) == k \in DOMAIN d

\* The record is in a terminal state: no coverage, or assigned with the
\* notification status written.
FullyProcessed(d) ==
    /\ Has(d, "ward_assigned") /\ Has(d, "notification_sent")
    /\ (d.ward_assigned => Has(d, "notification_time"))

\* Positions, in stream order, of the wards whose polygon (3 vertices or
\* more) has the issue's point in its interior.
Covering(d) ==
    {i \in 1..Len(wards) :
        /\ Has(wards[i].data, "boundaries")
        /\ Len(wards[i].data.boundaries) >= 3
        /\ Contains(wards[i].data.boundaries, V(d.latitude, d.longitude))}

\* Positions of the ward records whose boundary has one or two vertices.
Malformed ==
    {i \in 1..Len(wards) :
        /\ Has(wards[i].data, "boundaries")
        /\ Len(wards[i].data.boundaries) \in {1, 2}}

FirstOf(S) == CHOOSE i \in S : \A j \in S : i <= j

\* C1 (as claimed): a call of process_new_issue that finds its issue already
\* fully processed opens no SMTP session, so the sessions of a processed
\* issue do not grow.
C1_ProcessedIssueNotResent ==
    \A p \in Procs :
        (Fetched(p) /\ FullyProcessed(issue_data[p])) => Sessions(log[p]) = 0

\* C2: the dispatcher is called only after this call's update with the ward
\* info, the store then holds ward_assigned = TRUE with that ward's ID and
\* name, and no record has ward_assigned = TRUE without ward_id and
\* ward_name.
C2_AssignedBeforeNotified ==
    /\ \A p \in Procs :
          Did(p, "dispatch") =>
             /\ Did(p, "update_ward_info")
             /\ FirstAt(p, "update_ward_info") < FirstAt(p, "dispatch")
             /\ issues[issue_id[p]].ward_assigned = TRUE
             /\ issues[issue_id[p]].ward_id = ward[p].ward_id
             /\ issues[issue_id[p]].ward_name = ward[p].name
    /\ \A i \in DOMAIN issues :
          (Has(issues[i], "ward_assigned") /\ issues[i].ward_assigned) =>
             (Has(issues[i], "ward_id") /\ Has(issues[i], "ward_name"))

C2_Witness ==
    \E p \in Procs :
        /\ Sessions(log[p]) = 1
        /\ issues[issue_id[p]].ward_assigned = TRUE

\* The record does not say assigned, nor notified (the field is False or
\* was never written).
Unassigned(d) ==
    /\ Has(d, "ward_assigned") => d.ward_assigned = FALSE
    /\ Has(d, "notification_sent") => d.notification_sent = FALSE

\* C3: a call on an issue whose point no ward contains never calls the
\* dispatcher, no SMTP session is opened for the issue, and once returned
\* it has answered False with the record neither assigned nor notified;
\* when no ward boundary has one or two vertices, the call has made the
\* no-ward update, so ward_assigned = FALSE and notification_sent = FALSE
\* are written on the record.
C3_NoCoverage ==
    \A p \in Procs :
        (Fetched(p) /\ Covering(issue_data[p]) = {}) =>
           /\ ~Did(p, "dispatch")
           /\ Sessions(log[p]) = 0
           /\ sends[issue_id[p]] = 0
           /\ Unassigned(issues[issue_id[p]])
           /\ pc[p] = "done" => result[p] = FALSE
           /\ (pc[p] = "done" /\ Malformed = {}) =>
                 /\ Did(p, "update_no_ward")
                 /\ Has(issues[issue_id[p]], "ward_assigned")
                 /\ Has(issues[issue_id[p]], "notification_sent")

C3_Witness ==
    \E p \in Procs :
        /\ Fetched(p) /\ wards # <<>> /\ Malformed = {}
        /\ Covering(issue_data[p]) = {}
        /\ pc[p] = "done"
        /\ issues[issue_id[p]].ward_assigned = FALSE

\* C4: a returned call that reached the dispatcher (Notified or
\* NotificationFailed) has left ward_assigned = TRUE on the record, with
\* the ward_id of the first ward in stream order that contains the issue's
\* point, whether the SMTP session delivered or failed; and a call on an
\* issue inside a ward does reach the dispatcher and return True when no
\* ward boundary of one or two vertices precedes that ward.
C4_AssignmentSurvivesFailure ==
    \A p \in Procs :
        (Fetched(p) /\ pc[p] = "done") =>
           /\ Did(p, "dispatch") =>
                 /\ Covering(issue_data[p]) # {}
                 /\ result[p] = TRUE
                 /\ issues[issue_id[p]].ward_assigned = TRUE
                 /\ issues[issue_id[p]].ward_id =
                       wards[FirstOf(Covering(issue_data[p]))].data.ward_id
           /\ (/\ Covering(issue_data[p]) # {}
               /\ \A j \in Malformed : j > FirstOf(Covering(issue_data[p]))) =>
                 Did(p, "dispatch")

C4_Witness ==
    \E p \in Procs :
        /\ pc[p] = "done" /\ Fetched(p)
        /\ Did(p, "smtp_login_fault")
        /\ issues[issue_id[p]].notification_sent = FALSE
        /\ issues[issue_id[p]].ward_assigned = TRUE
        /\ issues[issue_id[p]].ward_id = "ward001"

\* C5: the step that fetches an issue ID no document has returns False and
\* changes neither the issues nor the wards, opens no SMTP session and does
\* not go on to the ward lookup.
C5_IssueNotFound ==
    [][\A p \in Procs :
          (/\ pc[p] = "get" /\ pc'[p] # "get"
           /\ issue_id[p] \notin DOMAIN issues) =>
             /\ pc'[p] = "done"
             /\ result'[p] = FALSE
             /\ issues' = issues
             /\ wards' = wards
             /\ sends' = sends
             /\ ~Did(p, "wards")']_vars

C5_Witness ==
    \E p \in Procs :
        /\ pc[p] = "done"
        /\ issue_id[p] = MissingId
        /\ log[p] = <<"get", "not_found">>

\* C6 (as claimed): a call that finds its issue assigned but not notified
\* does not stream the wards again and does not write the ward info again.
C6_OnlyMissingSteps ==
    \A p \in Procs :
        (/\ Fetched(p)
         /\ Has(issue_data[p], "ward_assigned") /\ issue_data[p].ward_assigned
         /\ Has(issue_data[p], "notification_sent")
         /\ ~issue_data[p].notification_sent) =>
           /\ ~Did(p, "wards")
           /\ ~Did(p, "update_ward_info")

\* C7 (as claimed): a ward boundary of fewer than 3 vertices is skipped, so
\* with such a ward in the collection a returned call on an issue whose
\* point a well-formed ward contains has assigned it and called the
\* dispatcher.
C7_MalformedWardSkipped ==
    \A p \in Procs :
        (/\ Fetched(p) /\ pc[p] = "done"
         /\ Malformed # {} /\ Covering(issue_data[p]) # {}) =>
           /\ result[p] = TRUE
           /\ Did(p, "dispatch")
           /\ Has(issues[issue_id[p]], "ward_assigned")
           /\ issues[issue_id[p]].ward_assigned = TRUE

\* Both workers fetched issue i before any call had written to it: their
\* calls on i overlap.
Overlapping(i) ==
    \A p \in Procs :
        /\ issue_id[p] = i /\ Fetched(p)
        /\ ~Has(issue_data[p], "ward_assigned")

\* No SMTP session of the workers' current calls has failed.
Reachable ==
    \A p \in Procs : \A e \in TransportOutcomes \ {"smtp_ok"} : ~Did(p, e)

\* C8 (as claimed): two overlapping calls on one issue inside a ward, with
\* the SMTP server reachable, open at most one SMTP session for it.
C8_NoDuplicateUnderConcurrency ==
    \A i \in IssueIds :
        (Overlapping(i) /\ Reachable /\ Covering(issues[i]) # {}) =>
           sends[i] <= 1

\* C9: once the dispatcher has been called, whatever the message or the
\* SMTP session did, the call is at its final status update or has made it
\* and returned True, and email_sent is True only for a delivered message.
C9_DispatcherNeverRaises ==
    \A p \in Procs :
        Did(p, "dispatch") =>
           /\ pc[p] \in {"status", "done"}
           /\ email_sent[p] = Did(p, "smtp_ok")
           /\ pc[p] = "done" =>
                 /\ result[p] = TRUE
                 /\ log[p][Len(log[p])] = "update_status"
                 /\ issues[issue_id[p]].notification_time < clock

C9_Witness ==
    \E p \in Procs : \E q \in Procs :
        /\ pc[p] = "done" /\ Did(p, "smtp_send_fault")
        /\ Did(p, "update_status")
        /\ pc[q] = "done" /\ Did(q, "dispatch") /\ Sessions(log[q]) = 0
        /\ Did(q, "update_status")

\* Calls of the dispatcher among what worker p did.
Dispatches(p) == Cardinality({i \in 1..Len(log[p]) : log[p][i] = "dispatch"})

\* C10 (as claimed): every call of the dispatcher opens exactly one SMTP
\* session.
C10_ExactlyOneTransportCall ==
    \A p \in Procs : Did(p, "dispatch") => Sessions(log[p]) = 1

\* C10 (amended): one call of process_new_issue calls the dispatcher at
\* most once and opens at most one SMTP session: exactly one when the
\* message could be built, whether it delivers or fails, and none when
\* building the message failed.
C10_AtMostOneTransportCall ==
    \A p \in Procs :
        /\ Dispatches(p) <= 1
        /\ Sessions(log[p]) <= 1
        /\ Did(p, "dispatch") =>
              Sessions(log[p]) =
                 (IF PayloadBuilt(issue_data[p], ward[p]) THEN 1 ELSE 0)

C10_Witness ==
    \E p \in Procs :
        /\ pc[p] = "done"
        /\ Did(p, "smtp_connect_fault")
        /\ Sessions(log[p]) = 1
        /\ sends[issue_id[p]] = 1

\* The open region of each well-formed ward, from its geometry: the two
\* rectangles and the triangle.
Interior(id, a, b) ==
    CASE id = "ward001" -> 0 < a /\ a < 4 /\ 0 < b /\ b < 4
      [] id = "ward002" -> 6 < a /\ a < 10 /\ 0 < b /\ b < 4
      [] id = "ward003" -> 2 < a /\ 2 < b /\ a + b < 8
      [] OTHER -> FALSE

\* The point is off the closed region of the ward.
Exterior(id, a, b) ==
    CASE id = "ward001" -> a < 0 \/ a > 4 \/ b < 0 \/ b > 4
      [] id = "ward002" -> a < 6 \/ a > 10 \/ b < 0 \/ b > 4
      [] id = "ward003" -> a < 2 \/ b < 2 \/ a + b > 8
      [] OTHER -> TRUE

\* Positions of the wards whose open region holds the point of document d.
InteriorOf(d) ==
    {i \in 1..Len(wards) : Interior(wards[i].id, d.latitude, d.longitude)}

\* No point of the grid is inside two wards of the collection.
NonOverlapping ==
    \A a \in -1..MaxLat : \A b \in -1..MaxLng :
        Cardinality({i \in 1..Len(wards) : Interior(wards[i].id, a, b)}) <= 1

\* Worker p's lookup has answered: ward[p] is the ward found, or None.
Answered(p) == pc[p] \in {"assign", "no_ward"}

\* C11: over non-overlapping well-formed wards the lookup never raises; it
\* answers the ward whose open region holds the point, and None (also for
\* the empty collection) when the point is off every ward's closed region.
C11_LookupResult ==
    \A p \in Procs :
        (Did(p, "wards") /\ NonOverlapping) =>
           /\ Answered(p)
           /\ \A i \in InteriorOf(issue_data[p]) :
                 pc[p] = "assign" /\ ward[p] = ToWard(wards[i])
           /\ (\A i \in 1..Len(wards) :
                  Exterior(wards[i].id, issue_data[p].latitude,
                           issue_data[p].longitude)) =>
                 pc[p] = "no_ward" /\ ward[p] = None

C11_Witness ==
    \E p \in Procs : \E q \in Procs :
        /\ NonOverlapping /\ Len(wards) = 2
        /\ Answered(p) /\ ward[p] # None /\ ward[p].ward_id = "ward003"
        /\ issue_id[q] # issue_id[p]
        /\ Answered(q) /\ ward[q] # None

\* C12: when several wards hold the point, the lookup answers the first of
\* them in stream order, and two lookups of the same issue over the same
\* collection answer the same ward.
C12_FirstMatchWins ==
    /\ \A p \in Procs :
          (Did(p, "wards") /\ InteriorOf(issue_data[p]) # {}) =>
             /\ pc[p] = "assign"
             /\ ward[p] = ToWard(wards[FirstOf(InteriorOf(issue_data[p]))])
    /\ \A p \in Procs : \A q \in Procs :
          (Did(p, "wards") /\ Did(q, "wards") /\ issue_id[p] = issue_id[q]) =>
             ward[p] = ward[q]

C12_Witness ==
    \E p \in Procs : \E q \in Procs :
        /\ p # q /\ pc[p] = "assign" /\ pc[q] = "assign"
        /\ issue_id[p] = issue_id[q]
        /\ Cardinality(InteriorOf(issue_data[p])) = 2
        /\ Len(wards) = 3
        /\ ward[p].ward_id = "ward001" /\ ward[q].ward_id = "ward001"

\* A store call of worker p's current call raised.
StoreFault(p) ==
    Did(p, "get_fault") \/ Did(p, "wards_fault") \/ Did(p, "update_fault")

\* What worker p's returned call came to.
Outcome(p) ==
    IF StoreFault(p) THEN "DependencyFailure"
    ELSE IF Did(p, "update_no_ward") THEN "NoCoverage"
    ELSE IF Did(p, "update_status") /\ Did(p, "smtp_ok") THEN "Notified"
    ELSE IF Did(p, "update_status") THEN "NotificationFailed"
    ELSE "Other"

\* C13 (as claimed): two returned calls that came to different outcomes
\* among NoCoverage, Notified, NotificationFailed and a dependency failure
\* returned different results.
C13_DistinguishableOutcomes ==
    \A p \in Procs : \A q \in Procs :
        (/\ pc[p] = "done" /\ pc[q] = "done"
         /\ Outcome(p) # "Other" /\ Outcome(q) # "Other"
         /\ Outcome(p) # Outcome(q)) =>
           result[p] # result[q]

\* Worker p's call returns in this step.
Returns(p) == pc[p] # "done" /\ pc'[p] = "done"

\* The record is assigned and carries the time of a notification attempt.
Attempted(d) ==
    /\ Has(d, "ward_assigned") /\ d.ward_assigned = TRUE
    /\ Has(d, "notification_sent") /\ Has(d, "notification_time")

C15_WardsReadOnly == [][wards' = wards]_vars

C15_Witness ==
    \E p \in Procs : \E q \in Procs :
        /\ wards # <<>>
        /\ pc[p] = "done" /\ Did(p, "update_status")
        /\ pc[q] = "done" /\ Did(q, "wards") /\ Did(q, "update_fault")

\* C16: a record with notification_sent = TRUE has ward_assigned = TRUE.
C16_NotifiedImpliesAssigned ==
    \A i \in DOMAIN issues :
        (Has(issues[i], "notification_sent") /\ issues[i].notification_sent) =>
           (Has(issues[i], "ward_assigned") /\ issues[i].ward_assigned)

C16_Witness ==
    \E i \in DOMAIN issues : \E p \in Procs :
        /\ Has(issues[i], "notification_sent") /\ issues[i].notification_sent
        /\ issue_id[p] = i /\ pc[p] = "done" /\ Did(p, "smtp_login_fault")

\* The current call of worker p met a fault: of the store, of the lookup,
\* or a field that is not there.
Faulted(p) ==
    StoreFault(p) \/ Did(p, "lookup_raised") \/ Did(p, "key_error")

\* C18: a call never ends in an exception: a call that met a fault has
\* returned False, the step that meets the fault changes no record (what
\* the call wrote before stays), and a fault of the final update leaves the
\* record with ward_assigned = TRUE and the notification fields as they
\* were, also when the mail was delivered.
C18_NoExceptionNoRollback ==
    [][\A p \in Procs :
          /\ pc'[p] \in {"idle", "get", "find", "no_ward", "assign", "notify",
                         "status", "done"}
          /\ Faulted(p)' => (pc'[p] = "done" /\ result'[p] = FALSE)
          /\ (Returns(p) /\ Faulted(p)') =>
                /\ issues' = issues
                /\ pc[p] = "status" =>
                      /\ Has(issues'[issue_id[p]], "ward_assigned")
                      /\ issues'[issue_id[p]].ward_assigned = TRUE
                      /\ issues'[issue_id[p]].ward_id = ward[p].ward_id]_vars

C18_Witness ==
    \E p \in Procs :
        /\ pc[p] = "done" /\ result[p] = FALSE
        /\ log[p] = <<"get", "wards", "update_ward_info", "dispatch",
                      "smtp_ok", "update_fault">>
        /\ issues[issue_id[p]].ward_assigned = TRUE
        /\ ~Has(issues[issue_id[p]], "notification_sent")

\* C17 (as claimed): a record whose ward_assigned is FALSE carries no
\* ward_id and no ward_name.
C17_NoStaleAssignment ==
    \A i \in DOMAIN issues :
        (Has(issues[i], "ward_assigned") /\ issues[i].ward_assigned = FALSE) =>
           (~Has(issues[i], "ward_id") /\ ~Has(issues[i], "ward_name"))

====
